---- MODULE Spec2Model ----
(***************************************************************************)
(* The incremental bubble sort of days/31_sortiterator.rs: BubbleSort<T>   *)
(* with T = Pixel, driven through Iterator::next, and the frame loop       *)
(* update() that drives it; the sketches of days/25.rs, days/27.rs and     *)
(* days/31.rs, each with its own model() and update().                     *)
(*                                                                         *)
(* Rust vectors are 0-based; At(s, i) reads s[i] of the Rust code.         *)
(***************************************************************************)
EXTENDS Integers, Sequences, FiniteSets, TLC

\* ---------------------------------------------------------------- bounds
MaxLen == 3        \* longest input sequence explored
MaxKey == 3        \* Pixel.idx ranges over 1..MaxKey
NumColors == 2     \* Pixel.color ranges over 0..NumColors-1
MaxNones == 2      \* exhausted calls are counted up to this number
MaxCount == 40     \* the observation counters saturate here

\* line 8 (5000000 in the source, scaled down so that a sort spans frames)
NUM_SORTS_PER_FRAME == 3

\* The pixel grid of days/31_sortiterator.rs and days/31.rs, 200 x 200 in the
\* source, is scaled down to PIXEL_GRID_WIDTH columns in two rows.
PIXEL_GRID_WIDTH == 2
PIXEL_GRID_HEIGHT == 2

\* days/31.rs lines 8-9 (50 and 2000 in the source, scaled down)
STEPS_PER_RANDOMIZATION == 2
NUM_RANDOMIZATIONS == 5

\* days/25.rs line 7 (50 in the source, scaled down)
NUM_COORDS == 3

MaxTime == 130     \* days/27.rs: updates of the grid explored

\* days/27.rs lines 62-63: the grid has 5 rows of 5 squares
GridSide == 5

\* days/25.rs lines 8-10, in the units of the progress variables:
\* 0.5 s in milliseconds, 0.05 and 0.4 in hundredths
SOLUTION_VIEW_TIME == 500
COORDS_ANIMATION_SPEED == 5
EDGES_ANIMATION_SPEED == 40

\* ---------------------------------------------------------------- Pixel
Pixel == [color : 0 .. (NumColors - 1), idx : 1 .. MaxKey]

cmp_color(a, b) ==
    IF a.idx < b.idx THEN "Less"
    ELSE IF a.idx > b.idx THEN "Greater"
    ELSE IF a.color < b.color THEN "Less"
    ELSE IF a.color = b.color THEN "Equal"
    ELSE "Greater"

\* impl Ord for Pixel: self.idx.cmp(&other.idx)
cmp(a, b) ==
    IF a.idx < b.idx THEN "Less"
    ELSE IF a.idx = b.idx THEN "Equal"
    ELSE "Greater"

\* impl PartialOrd for Pixel: Some(self.cmp(other))
partial_cmp(a, b) == cmp(a, b)

gt_ge(a, b) == partial_cmp(a, b) \in {"Greater", "Equal"}

gt_lt(a, b) == partial_cmp(a, b) = "Less"

\* the operator > of line 139, derived from partial_cmp
gt(a, b) == partial_cmp(a, b) = "Greater"

\* ---------------------------------------------------------------- Vec
At(s, i) == s[i + 1]

swap_overwrite(s, i, j) == [s EXCEPT ![i + 1] = s[j + 1]]

swap_from_zero(s, i, j) == [s EXCEPT ![1] = s[j + 1], ![j + 1] = s[1]]

\* Vec::swap(i, j)
swap(s, i, j) == [s EXCEPT ![i + 1] = s[j + 1], ![j + 1] = s[i + 1]]

Inputs == UNION {[1 .. n -> Pixel] : n \in 0 .. MaxLen}

\* ---------------------------------------------------------------- state
VARIABLES
    items,      \* BubbleSort.items
    did_swap,   \* BubbleSort.did_swap
    index,      \* BubbleSort.index
    done,       \* BubbleSort.done
    input,      \* the sequence handed to BubbleSort::new
    origin,     \* origin[k]: position in input of the item now at position k
    ret,        \* outcome of the last call: "Init", "Some", "None", "Panic"
    snap,       \* the last snapshot returned in a Some
    emitted,    \* number of Some returned so far
    nones,      \* number of None returned so far
    swaps,      \* number of swaps performed so far
    compares,   \* number of comparisons performed so far
    twin,       \* a second BubbleSort, run in lockstep on recoloured input
    finished,   \* Model.finished
    frame_calls,\* calls of next made so far by the running update()
    idle        \* update() calls made with finished set, up to MaxNones

engine == <<items, did_swap, index, done, input, origin, ret, snap,
            emitted, nones, swaps, compares>>

sorter == <<items, did_swap, index, done, input, origin, ret, snap,
            emitted, nones, swaps, compares, twin, finished, frame_calls, idle>>

\* ---------------------------------------------------------------- state of the other sketches
VARIABLES
    state,                     \* days/25.rs Model.state
    coord_animation_progress,  \* days/25.rs, in hundredths
    edge_animation_progress,   \* days/25.rs, in hundredths
    solution_view_progress,    \* days/25.rs, in milliseconds
    current_tour,              \* days/25.rs Model.current_tour
    time,                      \* days/27.rs Model.time
    squares,                   \* days/27.rs Model.squares, the phase of each
    target,                    \* days/31.rs Model.target
    current,                   \* days/31.rs Model.current
    indices,                   \* days/31.rs Model.indices
    randomization_step,        \* days/31.rs Model.randomization_step
    randomization_finished,    \* days/31.rs Model.finished
    swaps_in_update,           \* days/31.rs swaps made so far by the running update()
    last_swaps,                \* days/31.rs swaps made by the last completed update()
    updates                    \* days/31.rs update() calls completed so far

tsp == <<state, coord_animation_progress, edge_animation_progress,
         solution_view_progress, current_tour>>

grid == <<time, squares>>

shuffle == <<target, current, indices, randomization_step,
             randomization_finished, swaps_in_update, last_swaps, updates>>

vars == <<sorter, tsp, grid, shuffle>>

NumPixels == PIXEL_GRID_WIDTH * PIXEL_GRID_HEIGHT

\* lines 62-75 of days/31_sortiterator.rs and 31-44 of days/31.rs: the colour
\* of grid position i, (r, g, b) truncated to u8 as the casts do
Gradient(i) ==
    LET x == i % PIXEL_GRID_WIDTH
        y == i \div PIXEL_GRID_WIDTH
    IN  <<(255 * y) \div PIXEL_GRID_HEIGHT,
          (255 * (x + y)) \div (PIXEL_GRID_WIDTH + PIXEL_GRID_HEIGHT),
          (255 * PIXEL_GRID_HEIGHT - 255 * y) \div PIXEL_GRID_HEIGHT>>

\* days/25.rs model(): every point at the centre, no tour yet
tsp_model ==
    /\ state = "MovingCoords"
    /\ coord_animation_progress = [i \in 1 .. NUM_COORDS |-> 0]
    /\ edge_animation_progress = 0
    /\ solution_view_progress = 0
    /\ current_tour = <<>>

\* days/27.rs model(): 5 x 5 squares of phase 0, time 0
grid_model ==
    /\ time = 0
    /\ squares = [k \in 1 .. (GridSide * GridSide) |-> 0]

\* days/31.rs model(): the target gradient, shown in order
shuffle_model ==
    /\ target = [k \in 1 .. NumPixels |-> Gradient(k - 1)]
    /\ current = [k \in 1 .. NumPixels |-> Gradient(k - 1)]
    /\ indices = [k \in 1 .. NumPixels |-> k - 1]
    /\ randomization_step = 0
    /\ randomization_finished = FALSE
    /\ swaps_in_update = 0
    /\ last_swaps = 0
    /\ updates = 0

\* the sketches are separate programs: while one runs the others stay as built
sketches_25_27_31 == tsp_model /\ grid_model /\ shuffle_model

Bump(c) == IF c < MaxCount THEN c + 1 ELSE c

\* BubbleSort::new
new(iter) ==
    /\ items = iter
    /\ did_swap = FALSE
    /\ index = 0
    /\ done = FALSE
    /\ input = iter
    /\ origin = [k \in 1 .. Len(iter) |-> k]
    /\ ret = "Init"
    /\ snap = <<>>
    /\ emitted = 0
    /\ nones = 0
    /\ swaps = 0
    /\ compares = 0

\* BubbleSort::new, as a value
new_engine(iter) ==
    [items |-> iter, did_swap |-> FALSE, index |-> 0, done |-> FALSE,
     ret |-> "Init", swaps |-> 0]

\* Model::new: finished is false, no frame has run
new_model ==
    /\ finished = FALSE
    /\ frame_calls = 0
    /\ idle = 0

Init ==
    /\ \E iter \in Inputs : new(iter) /\ twin = new_engine(<<>>) /\ new_model
    /\ sketches_25_27_31

exhausted_nodone == Len(items) = 0

exhausted_noempty == done

\* line 126: self.items.is_empty() || self.done
exhausted == Len(items) = 0 \/ done

end_of_pass_late == index >= Len(items)

end_of_pass_early == index >= Len(items) - 2

\* line 130: self.index >= self.items.len() - 1
end_of_pass == index >= Len(items) - 1

\* lines 130-135: self.index = 0 at the end of a pass that swapped
cursor_after_reset == IF end_of_pass THEN 0 ELSE index

flag_after_reset_stale == did_swap

\* lines 130-136: self.did_swap = false at the end of a pass that swapped
flag_after_reset == IF end_of_pass THEN FALSE ELSE did_swap

\* return None: nothing but the caller's view changes
ReturnNone ==
    /\ ret' = "None"
    /\ nones' = IF nones < MaxNones THEN nones + 1 ELSE nones
    /\ UNCHANGED <<items, did_swap, index, done, input, origin, snap,
                   emitted, swaps, compares>>

\* a panic aborts the call (and the program) before any field is written
Panic ==
    /\ ret' = "Panic"
    /\ UNCHANGED <<items, did_swap, index, done, input, origin, snap,
                   emitted, nones, swaps, compares>>

\* Iterator::next for BubbleSort
next ==
    /\ ret # "Panic"
    /\ IF exhausted
       THEN ReturnNone
       ELSE IF Len(items) = 0
       THEN Panic  \* len() - 1 underflows (debug) or items[0] is out of range
       ELSE IF end_of_pass /\ ~did_swap
       THEN /\ done' = TRUE
            /\ ret' = "Some"
            /\ snap' = items
            /\ emitted' = Bump(emitted)
            /\ UNCHANGED <<items, did_swap, index, input, origin, nones,
                           swaps, compares>>
       ELSE LET i == cursor_after_reset
                ds == flag_after_reset
            IN  IF i + 1 >= Len(items)
                THEN Panic  \* items[index + 1] is out of range
                ELSE LET sw == gt(At(items, i), At(items, i + 1))
                     IN  /\ items' = IF sw THEN swap(items, i, i + 1) ELSE items
                         /\ origin' = IF sw THEN swap(origin, i, i + 1) ELSE origin
                         /\ did_swap' = IF sw THEN TRUE ELSE ds
                         /\ index' = i + 1
                         /\ ret' = "Some"
                         /\ snap' = items'
                         /\ emitted' = Bump(emitted)
                         /\ swaps' = IF sw THEN Bump(swaps) ELSE swaps
                         /\ compares' = Bump(compares)
                         /\ UNCHANGED <<done, input, nones>>

Next ==
    /\ next
    /\ UNCHANGED <<twin, finished, frame_calls, idle>>
    /\ UNCHANGED <<tsp, grid, shuffle>>

Spec == Init /\ [][Next]_vars

\* the driving loop of update() keeps calling next() until it returns None
FairSpec == Spec /\ WF_vars(Next)

\* ---------------------------------------------------------------- two engines in lockstep
\* Iterator::next for BubbleSort, applied to an engine value
next_of(e) ==
    IF e.ret = "Panic"
    THEN e
    ELSE IF Len(e.items) = 0 \/ e.done
    THEN [e EXCEPT !.ret = "None"]
    ELSE IF e.index >= Len(e.items) - 1 /\ ~e.did_swap
    THEN [e EXCEPT !.done = TRUE, !.ret = "Some"]
    ELSE LET i == IF e.index >= Len(e.items) - 1 THEN 0 ELSE e.index
             ds == IF e.index >= Len(e.items) - 1 THEN FALSE ELSE e.did_swap
         IN  IF i + 1 >= Len(e.items)
             THEN [e EXCEPT !.ret = "Panic"]
             ELSE LET sw == gt(At(e.items, i), At(e.items, i + 1))
                  IN  [items |-> IF sw THEN swap(e.items, i, i + 1) ELSE e.items,
                       did_swap |-> IF sw THEN TRUE ELSE ds,
                       index |-> i + 1,
                       done |-> e.done,
                       ret |-> "Some",
                       swaps |-> IF sw THEN Bump(e.swaps) ELSE e.swaps]

\* the same keys as iter, every colour replaced by the first one
Uncoloured(iter) ==
    [k \in 1 .. Len(iter) |-> [color |-> 0, idx |-> iter[k].idx]]

\* Any two inputs with the same idx sequence have the same Uncoloured input;
\* if each of them runs like it, they run like each other.
PairInit ==
    \E iter \in Inputs :
        /\ new(iter)
        /\ twin = new_engine(Uncoloured(iter))
        /\ new_model
        /\ sketches_25_27_31

\* both engines are asked for their next snapshot
PairNext ==
    /\ next
    /\ twin' = next_of(twin)
    /\ UNCHANGED <<finished, frame_calls, idle>>
    /\ UNCHANGED <<tsp, grid, shuffle>>

PairSpec == PairInit /\ [][PairNext]_vars

\* ---------------------------------------------------------------- update()
already_finished_ignored == FALSE

\* line 150: if model.finished { return; }
already_finished == finished

loop_continues_one_more == frame_calls <= NUM_SORTS_PER_FRAME

\* line 154: for _ in 0..NUM_SORTS_PER_FRAME
loop_continues == frame_calls < NUM_SORTS_PER_FRAME

\* lines 154-159: one iteration of the loop; a None sets finished and breaks
update_call ==
    /\ ~already_finished
    /\ loop_continues
    /\ next
    /\ IF ret' = "None"
       THEN finished' = TRUE /\ frame_calls' = 0
       ELSE finished' = finished /\ frame_calls' = frame_calls + 1
    /\ UNCHANGED <<twin, idle>>
    /\ UNCHANGED <<tsp, grid, shuffle>>

\* line 154: the range is used up, update returns and the next frame starts
update_return ==
    /\ ~already_finished
    /\ ~loop_continues
    /\ frame_calls' = 0
    /\ UNCHANGED <<engine, twin, finished, idle>>
    /\ UNCHANGED <<tsp, grid, shuffle>>

\* lines 150-152: update called with finished set returns at once
update_idle ==
    /\ already_finished
    /\ idle' = (IF idle < MaxNones THEN idle + 1 ELSE idle)
    /\ UNCHANGED <<engine, twin, finished, frame_calls>>
    /\ UNCHANGED <<tsp, grid, shuffle>>

UpdateNext == update_call \/ update_return \/ update_idle

UpdateSpec == Init /\ [][UpdateNext]_vars

\* ---------------------------------------------------------------- model() of days/31_sortiterator.rs
model_shuffle_swap_colors_only(p, i, j) ==
    [colors |-> swap(p.colors, i, j), indices |-> p.indices]

\* lines 84-85: colors.swap(i, j); current_indices.swap(i, j)
model_shuffle_swap(p, i, j) ==
    [colors |-> swap(p.colors, i, j), indices |-> swap(p.indices, i, j)]

\* lines 82-86: for i in (1..colors.len()).rev(), with j = js[i] drawn from 0..=i
RECURSIVE model_shuffle(_, _, _)
model_shuffle(p, i, js) ==
    IF i < 1 THEN p
    ELSE model_shuffle(model_shuffle_swap(p, i, js[i]), i - 1, js)

\* line 83: the outcomes of rng.gen_range(0..=i), one for each i
ShuffleChoices ==
    {js \in [1 .. (NumPixels - 1) -> 0 .. (NumPixels - 1)] :
        \A i \in 1 .. (NumPixels - 1) : js[i] <= i}

\* lines 62-94: the gradient, the ordered indices, the shuffle and the zip
model_pixels(js) ==
    LET p == model_shuffle([colors |-> [k \in 1 .. NumPixels |-> Gradient(k - 1)],
                            indices |-> [k \in 1 .. NumPixels |-> k - 1]],
                           NumPixels - 1, js)
    IN  [k \in 1 .. NumPixels |-> [color |-> p.colors[k], idx |-> p.indices[k]]]

\* model(): Model::new on the shuffled pixels
SketchInit ==
    /\ \E js \in ShuffleChoices :
          new(model_pixels(js)) /\ twin = new_engine(<<>>) /\ new_model
    /\ sketches_25_27_31

\* the framework calls update() once per frame, for as long as the app runs
SketchSpec == SketchInit /\ [][UpdateNext]_vars /\ WF_vars(UpdateNext)

\* ---------------------------------------------------------------- days/25.rs
\* Progress values are f32 in the source; they are kept here in exact
\* hundredths (milliseconds for the view time). The points themselves and
\* tour_length are data that no branch of update() reads.

\* line 134: update.since_last, the time since the last frame in milliseconds
FrameMillis == {16, 100, 250}

\* lines 112-117: the route of the external solver, some order of the points
Tours ==
    {r \in [1 .. NUM_COORDS -> 0 .. (NUM_COORDS - 1)] :
        \A i \in 1 .. NUM_COORDS : \A j \in 1 .. NUM_COORDS :
            i # j => r[i] # r[j]}

after_viewing_skips == "DrawingEdges"

\* line 142: model.state = ModelState::MovingCoords
after_viewing == "MovingCoords"

\* lines 79-122
update_moving_coords ==
    /\ state = "MovingCoords"
    /\ LET arrived(i) == coord_animation_progress[i] + COORDS_ANIMATION_SPEED > 100
           all_arrived == \A i \in 1 .. NUM_COORDS : arrived(i)
       IN  /\ coord_animation_progress' =
                 [i \in 1 .. NUM_COORDS |->
                     IF arrived(i) THEN 100
                     ELSE coord_animation_progress[i] + COORDS_ANIMATION_SPEED]
           /\ IF all_arrived
              THEN /\ \E route \in Tours : current_tour' = route
                   /\ state' = "DrawingEdges"
                   /\ edge_animation_progress' = 0
              ELSE UNCHANGED <<current_tour, state, edge_animation_progress>>
    /\ UNCHANGED solution_view_progress
    /\ UNCHANGED <<sorter, grid, shuffle>>

\* lines 124-131
update_drawing_edges ==
    /\ state = "DrawingEdges"
    /\ LET e == edge_animation_progress + EDGES_ANIMATION_SPEED
       IN  IF e >= NUM_COORDS * 100
           THEN /\ edge_animation_progress' = NUM_COORDS * 100
                /\ solution_view_progress' = 0
                /\ state' = "ViewingSolution"
           ELSE /\ edge_animation_progress' = e
                /\ UNCHANGED <<solution_view_progress, state>>
    /\ UNCHANGED <<coord_animation_progress, current_tour>>
    /\ UNCHANGED <<sorter, grid, shuffle>>

\* lines 133-144
update_viewing_solution ==
    /\ state = "ViewingSolution"
    /\ \E since_last \in FrameMillis :
          LET v == solution_view_progress + since_last
          IN  /\ solution_view_progress' = v
              /\ IF v >= SOLUTION_VIEW_TIME
                 THEN /\ coord_animation_progress' = [i \in 1 .. NUM_COORDS |-> 0]
                      /\ edge_animation_progress' = 0
                      /\ state' = after_viewing
                 ELSE UNCHANGED <<coord_animation_progress,
                                  edge_animation_progress, state>>
    /\ UNCHANGED current_tour
    /\ UNCHANGED <<sorter, grid, shuffle>>

\* lines 155-160: view() reads current_tour in these states
view_indexes_tour ==
    /\ state \in {"DrawingEdges", "ViewingSolution"}
    /\ edge_animation_progress > 0

\* lines 71-77: update dispatches on model.state
TspNext == update_moving_coords \/ update_drawing_edges \/ update_viewing_solution

TspInit ==
    /\ new(<<>>) /\ twin = new_engine(<<>>) /\ new_model
    /\ sketches_25_27_31

TspSpec == TspInit /\ [][TspNext]_vars

\* ---------------------------------------------------------------- days/27.rs
\* line 25, Square::update: self.phase = ((time / 30) % 4) as u8
square_update(t) == ((t \div 30) % 4) % 256

offset_row_only(idx) == (idx \div GridSide) * 15

\* lines 78-80: the timing offset of the square at position idx of the Vec
offset(idx) == ((idx \div GridSide) + (idx % GridSide)) * 15

\* lines 73-83: update; time is a u64 and is explored up to MaxTime
grid_update ==
    /\ time < MaxTime
    /\ time' = time + 1
    /\ squares' = [k \in 1 .. Len(squares) |-> square_update(time' + offset(k - 1))]
    /\ UNCHANGED <<sorter, tsp, shuffle>>

GridInit ==
    /\ new(<<>>) /\ twin = new_engine(<<>>) /\ new_model
    /\ sketches_25_27_31

GridNext == grid_update

GridSpec == GridInit /\ [][GridNext]_vars

\* ---------------------------------------------------------------- days/31.rs
\* update() is followed through its loop: shuffle_swap is one iteration of
\* the for loop of lines 71-75, shuffle_update_end the rest of the call.

swaps_wanted_from_first_update == TRUE

\* line 70: if model.randomization_step > 2
swaps_wanted == randomization_step > 2

\* line 84: if model.randomization_step > NUM_RANDOMIZATIONS, after line 81
stops == randomization_step' > NUM_RANDOMIZATIONS

\* line 79: model.indices.iter().map(|&i| model.target[i]).collect()
current_of(ind) == [k \in 1 .. Len(ind) |-> At(target, ind[k])]

\* lines 72-74: i and j drawn from 0..indices.len(), then indices.swap(i, j)
shuffle_swap ==
    /\ ~randomization_finished
    /\ swaps_wanted
    /\ swaps_in_update < STEPS_PER_RANDOMIZATION
    /\ \E i \in 0 .. (Len(indices) - 1) : \E j \in 0 .. (Len(indices) - 1) :
          indices' = swap(indices, i, j)
    /\ swaps_in_update' = swaps_in_update + 1
    /\ UNCHANGED <<target, current, randomization_step,
                   randomization_finished, last_swaps, updates>>
    /\ UNCHANGED <<sorter, tsp, grid>>

\* lines 78-92: the display is rebuilt, the step counted, the stop test made
shuffle_update_end ==
    /\ ~randomization_finished
    /\ ~swaps_wanted \/ swaps_in_update = STEPS_PER_RANDOMIZATION
    /\ current' = current_of(indices)
    /\ randomization_step' = randomization_step + 1
    /\ randomization_finished' = stops
    /\ last_swaps' = swaps_in_update
    /\ swaps_in_update' = 0
    /\ updates' = updates + 1
    /\ UNCHANGED <<target, indices>>
    /\ UNCHANGED <<sorter, tsp, grid>>

\* lines 63-65: update called with finished set returns at once
shuffle_update_idle ==
    /\ randomization_finished
    /\ updates < NUM_RANDOMIZATIONS + 1 + MaxNones
    /\ updates' = updates + 1
    /\ last_swaps' = 0
    /\ UNCHANGED <<target, current, indices, randomization_step,
                   randomization_finished, swaps_in_update>>
    /\ UNCHANGED <<sorter, tsp, grid>>

ShuffleNext == shuffle_swap \/ shuffle_update_end \/ shuffle_update_idle

ShuffleInit ==
    /\ new(<<>>) /\ twin = new_engine(<<>>) /\ new_model
    /\ sketches_25_27_31

ShuffleSpec == ShuffleInit /\ [][ShuffleNext]_vars

\* ---------------------------------------------------------------- helpers of the properties
Keys(s) == [k \in 1 .. Len(s) |-> s[k].idx]

IsSorted(s) == \A k \in 1 .. (Len(s) - 1) : s[k].idx <= s[k + 1].idx

StrictlyDescending(s) == \A k \in 1 .. (Len(s) - 1) : s[k].idx > s[k + 1].idx

Occurrences(s, p) == Cardinality({k \in 1 .. Len(s) : s[k] = p})

IsPermutationOf(s, t) ==
    /\ Len(s) = Len(t)
    /\ \A k \in 1 .. Len(s) : Occurrences(s, s[k]) = Occurrences(t, s[k])
    /\ \A k \in 1 .. Len(t) : Occurrences(s, t[k]) = Occurrences(t, t[k])

AdjacentTransposition(s, t, k) ==
    /\ Len(s) = Len(t)
    /\ k \in 1 .. (Len(s) - 1)
    /\ t[k] = s[k + 1]
    /\ t[k + 1] = s[k]
    /\ \A m \in 1 .. Len(s) : m \notin {k, k + 1} => t[m] = s[m]

\* number of pairs k < m with key[k] > key[m]
Inversions(s) ==
    Cardinality({p \in (1 .. Len(s)) \X (1 .. Len(s)) :
                    p[1] < p[2] /\ s[p[1]].idx > s[p[2]].idx})

\* passes completed so far: each pass makes Len(items) - 1 comparisons
PassesCompleted ==
    IF Len(items) >= 2 THEN compares \div (Len(items) - 1) ELSE 0

\* the positions holding the result of the passes completed so far
SettledPositions ==
    {j \in 1 .. Len(items) : j > Len(items) - PassesCompleted}

\* ---------------------------------------------------------------- claims

\* C1: once next has set done, the sequence is sorted non-decreasing by key:
\* items[i] <= items[i+1] for every adjacent pair.
C1_SortedWhenDone == done => IsSorted(items)

C1_Witness == done /\ Len(items) >= 3 /\ swaps >= 3 /\ ~IsSorted(input)

\* C2: in every reachable state, and in every snapshot returned by next, the
\* sequence is a permutation of the items given at construction.
C2_Permutation ==
    /\ IsPermutationOf(items, input)
    /\ (emitted > 0 => IsPermutationOf(snap, input))

C2_Witness == ret = "Some" /\ swaps >= 2 /\ snap # input /\ Len(input) >= 3

\* C3: for every input, repeated calls of next eventually return None.
C3_EventuallyNone == <>(ret = "None")

C3_Witness == ret = "None" /\ done /\ swaps >= 3 /\ Len(input) = MaxLen

\* C4: once done, every further call returns None and leaves items, index,
\* did_swap and done unchanged.
C4_TerminalNoOp ==
    [][done => /\ ret' = "None"
               /\ items' = items
               /\ index' = index
               /\ did_swap' = did_swap
               /\ done' = done
               /\ IsSorted(items')]_vars

C4_Witness == done /\ ret = "None" /\ nones = MaxNones /\ Len(items) >= 2

\* C5: an engine built from the empty sequence returns None on its first and
\* on every later call; no snapshot is produced and no field changes.
C5_EmptyInput ==
    input = <<>> =>
        /\ ret \in {"Init", "None"}
        /\ (nones > 0 => ret = "None")
        /\ emitted = 0
        /\ snap = <<>>
        /\ items = <<>>
        /\ index = 0
        /\ did_swap = FALSE
        /\ done = FALSE

C5_Witness == input = <<>> /\ ret = "None" /\ nones = MaxNones

\* C6: for a sorted input of length n >= 1 the engine makes n-1 comparison
\* steps with no swap, every snapshot equals the input, and the n-th call
\* (and no earlier one) sets done.
C6_SortedInputOnePass ==
    (Len(input) >= 1 /\ IsSorted(input)) =>
        /\ swaps = 0
        /\ items = input
        /\ (emitted > 0 => snap = input)
        /\ emitted <= Len(input)
        /\ (done <=> emitted = Len(input))
        /\ compares = (IF emitted < Len(input) THEN emitted ELSE Len(input) - 1)
        /\ (~done => index = emitted)
        /\ (ret = "None" => done)
        /\ ret # "Panic"

C6_Witness ==
    /\ IsSorted(input)
    /\ Len(input) = MaxLen
    /\ \E k \in 1 .. (Len(input) - 1) : input[k].idx = input[k + 1].idx
    /\ done
    /\ compares = Len(input) - 1

\* C7: for a strictly descending input of length n, the number of swaps from
\* construction until exhaustion is n*(n-1)/2.
C7_DescendingSwaps ==
    (StrictlyDescending(input) /\ (done \/ ret = "None")) =>
        2 * swaps = Len(input) * (Len(input) - 1)

C7_Witness ==
    StrictlyDescending(input) /\ Len(input) = 3 /\ ret = "None" /\ swaps = 3

\* C8: for keys [3,1,2] the first snapshot is [1,3,2] (swap at index 0), the
\* second [1,2,3] (swap at index 1); then a pass without a swap ends and the
\* engine is terminal with [1,2,3].
C8_Scenario312 ==
    Keys(input) = <<3, 1, 2>> =>
        /\ (emitted = 0 => Keys(items) = <<3, 1, 2>>)
        /\ (emitted = 1 => Keys(snap) = <<1, 3, 2>> /\ swaps = 1 /\ index = 1)
        /\ (emitted = 2 => Keys(snap) = <<1, 2, 3>> /\ swaps = 2 /\ index = 2)
        /\ (emitted >= 3 => Keys(snap) = <<1, 2, 3>> /\ swaps = 2)
        /\ (emitted \in {3, 4} => did_swap = FALSE /\ index = emitted - 2)
        /\ emitted <= 5
        /\ (done <=> emitted = 5)
        /\ (done => Keys(items) = <<1, 2, 3>> /\ did_swap = FALSE)
        /\ (ret = "None" => done)

C8_Witness == Keys(input) = <<3, 1, 2>> /\ done /\ ret = "None"

\* C9: a call of next makes at most one comparison and at most one swap, and
\* the sequence after it is the sequence before it or differs from it by the
\* transposition of the cursor position and its right neighbour.
C9_OneAdjacentSwap ==
    [][/\ compares' <= compares + 1
       /\ swaps' <= swaps + 1
       /\ (items' = items => swaps' = swaps)
       /\ (items' # items =>
              /\ swaps' = swaps + 1
              /\ compares' = compares + 1
              /\ AdjacentTransposition(items, items', index'))]_vars

C9_Witness ==
    /\ ret = "Some"
    /\ emitted > Len(items)
    /\ index = 2
    /\ snap = items
    /\ did_swap
    /\ At(items, 1).idx > At(items, 0).idx
    /\ At(input, 1).idx < At(input, 0).idx

\* C10: items with equal keys are never swapped with each other: in every
\* snapshot and in the final sequence they are in their input order.
C10_Stable ==
    /\ Len(origin) = Len(items)
    /\ \A k \in 1 .. Len(items) :
          origin[k] \in 1 .. Len(input) /\ items[k] = input[origin[k]]
    /\ \A k \in 1 .. Len(items) : \A m \in 1 .. Len(items) :
          (k < m /\ items[k].idx = items[m].idx) => origin[k] < origin[m]
    /\ (emitted > 0 => snap = items)

C10_Witness ==
    /\ done
    /\ swaps >= 2
    /\ \E k \in 1 .. Len(items) : \E m \in 1 .. Len(items) :
          /\ k < m
          /\ items[k].idx = items[m].idx
          /\ items[k].color # items[m].color
          /\ origin[k] # k
          /\ origin[m] # m

\* C11: two engines whose inputs have the same idx sequence and any colours
\* make the same swaps at the same calls and return snapshots with the same
\* idx sequence: colour never influences a step.
C11_ColorBlind ==
    /\ Keys(twin.items) = Keys(items)
    /\ twin.index = index
    /\ twin.did_swap = did_swap
    /\ twin.done = done
    /\ twin.ret = ret
    /\ twin.swaps = swaps
    /\ (emitted > 0 => Keys(twin.items) = Keys(snap))

C11_Witness ==
    /\ done
    /\ swaps >= 2
    /\ twin.swaps = swaps
    /\ Len(items) = MaxLen
    /\ \E k \in 1 .. Len(items) : twin.items[k].color # items[k].color
    /\ \E k \in 1 .. (Len(input) - 1) :
          input[k].idx = input[k + 1].idx /\ input[k].color > input[k + 1].color

\* C12: update calls next at most NUM_SORTS_PER_FRAME times per frame; the
\* first None sets finished in the same update, and with finished set no
\* update calls next again or changes the model.
C12_DrivingLoop ==
    /\ [](/\ frame_calls <= NUM_SORTS_PER_FRAME
          /\ (finished <=> ret = "None")
          /\ nones <= 1
          /\ (idle > 0 => finished))
    /\ [][/\ (finished => (finished' /\ UNCHANGED engine))
          /\ (nones' # nones => finished')]_vars

C12_Witness ==
    /\ finished
    /\ idle = MaxNones
    /\ nones = 1
    /\ emitted > 2 * NUM_SORTS_PER_FRAME

\* C13 (as claimed): a call made with the cursor at len-2 takes the
\* end-of-pass branch instead of comparing the items at len-2 and len-1.
C13_EndOfPassAtSecondToLast ==
    [][(~done /\ Len(items) >= 2 /\ index = Len(items) - 2) =>
          /\ compares' = compares
          /\ items' = items
          /\ (~did_swap => done')
          /\ (did_swap => index' = 0 /\ ~did_swap')]_vars

\* C13 (amended): the pass ends when the cursor has reached the last index
\* len-1. A call made with the cursor at len-2 compares the items at len-2
\* and len-1 and moves the cursor to len-1; a call made with the cursor at
\* len-1 sets done if no swap occurred in the pass, and otherwise resets the
\* cursor and the swap flag and goes on to compare items 0 and 1.
C13_EndOfPassAtLast ==
    [][/\ (~done /\ Len(items) >= 2 /\ index = Len(items) - 2) =>
              /\ compares' = compares + 1
              /\ index' = Len(items) - 1
              /\ ~done'
              /\ (items' # items <=>
                     items[Len(items) - 1].idx > items[Len(items)].idx)
              /\ (items' # items =>
                     AdjacentTransposition(items, items', Len(items) - 1))
       /\ (~done /\ Len(items) >= 1 /\ index = Len(items) - 1 /\ ~did_swap) =>
              /\ done'
              /\ compares' = compares
              /\ items' = items
              /\ index' = index
       /\ (~done /\ Len(items) >= 1 /\ index = Len(items) - 1 /\ did_swap) =>
              /\ ~done'
              /\ compares' = compares + 1
              /\ index' = 1
              /\ (did_swap' <=> items' # items)
       /\ (~done /\ Len(items) >= 1 /\ index < Len(items) - 1) =>
              /\ ~done'
              /\ index' = index + 1]_vars

C13_Witness ==
    /\ Len(items) = MaxLen
    /\ index = Len(items) - 1
    /\ did_swap
    /\ compares = 2 * (Len(items) - 1)
    /\ items[Len(items) - 1] # input[Len(items) - 1]

\* C14: a call made at the end of a pass in which a swap occurred resets the
\* cursor and the swap flag and, in the same call, compares items 0 and 1:
\* the cursor is left at 1, the swap flag is true exactly when that
\* comparison swapped, and a snapshot is returned.
C14_ResetFallsThrough ==
    [][(~done /\ Len(items) >= 1 /\ index >= Len(items) - 1 /\ did_swap) =>
          /\ Len(items) >= 2
          /\ index' = 1
          /\ compares' = compares + 1
          /\ (did_swap' <=> items[1].idx > items[2].idx)
          /\ (did_swap' <=> swaps' = swaps + 1)
          /\ (did_swap' => AdjacentTransposition(items, items', 1))
          /\ (~did_swap' => items' = items /\ swaps' = swaps)
          /\ ~done'
          /\ ret' = "Some"
          /\ snap' = items'
          /\ emitted' = emitted + 1]_vars

C14_Witness ==
    /\ index = 1
    /\ emitted = Len(items)
    /\ Len(items) = MaxLen
    /\ ~did_swap
    /\ swaps >= 1
    /\ ret = "Some"

\* C15: done is set once and never cleared, and only by a call that finds
\* the cursor at the end of a pass with the swap flag false; that call makes
\* no comparison and no swap and returns Some(final sequence) before any
\* None is returned.
C15_TerminalCall ==
    /\ []((Len(input) >= 1 /\ nones > 0) => done)
    /\ [][/\ (done => (done' /\ emitted' = emitted))
          /\ ((~done /\ done') =>
                 /\ Len(items) >= 1
                 /\ index >= Len(items) - 1
                 /\ ~did_swap
                 /\ compares' = compares
                 /\ swaps' = swaps
                 /\ items' = items
                 /\ index' = index
                 /\ did_swap' = did_swap
                 /\ ret' = "Some"
                 /\ snap' = items
                 /\ IsSorted(snap')
                 /\ emitted' = emitted + 1
                 /\ nones = 0)]_vars

C15_Witness ==
    /\ done
    /\ ret = "Some"
    /\ nones = 0
    /\ snap = items
    /\ snap # input
    /\ emitted > 2 * Len(items)

\* C16: a comparison step compares the item at the cursor with its right
\* neighbour, swaps them and sets the swap flag if and only if the cursor's
\* item is strictly greater (equal keys: no swap, flag as it was), advances
\* the cursor by exactly one and returns the sequence as it is after the
\* step. The cursor and the flag are those left by the pass reset, when the
\* call starts at the end of a pass.
C16_ComparisonStep ==
    [][(compares' # compares) =>
          LET reset == index >= Len(items) - 1
              c == IF reset THEN 0 ELSE index
              flag == IF reset THEN FALSE ELSE did_swap
              greater == items[c + 1].idx > items[c + 2].idx
          IN  /\ ~done /\ ~done'
              /\ c + 2 <= Len(items)
              /\ compares' = compares + 1
              /\ index' = c + 1
              /\ (greater => /\ AdjacentTransposition(items, items', c + 1)
                             /\ did_swap'
                             /\ swaps' = swaps + 1)
              /\ (~greater => /\ items' = items
                              /\ did_swap' = flag
                              /\ swaps' = swaps)
              /\ ret' = "Some"
              /\ snap' = items'
              /\ emitted' = emitted + 1]_vars

C16_Witness ==
    /\ ret = "Some"
    /\ ~done
    /\ index = 2
    /\ did_swap
    /\ swaps = 1
    /\ compares = 2
    /\ At(items, 1).idx = At(items, 2).idx
    /\ At(input, 0).idx > At(input, 1).idx

\* C17: an input of length n >= 1 yields at most n*(n-1)+1 snapshots before
\* None, and a strictly descending input yields exactly that many.
C17_SnapshotBound ==
    Len(input) >= 1 =>
        /\ emitted <= Len(input) * (Len(input) - 1) + 1
        /\ ((StrictlyDescending(input) /\ (done \/ ret = "None")) =>
               emitted = Len(input) * (Len(input) - 1) + 1)

C17_Witness ==
    /\ StrictlyDescending(input)
    /\ Len(input) = MaxLen
    /\ ret = "None"
    /\ emitted = MaxLen * (MaxLen - 1) + 1

\* C18: for a non-empty sequence the cursor stays within 0..len-1, and every
\* comparison reads two positions inside the sequence, for every length
\* including 1: no call panics on an index or on len-1.
C18_CursorInRange ==
    /\ [](/\ ret # "Panic"
          /\ (Len(items) >= 1 => index \in 0 .. (Len(items) - 1))
          /\ (Len(items) = 0 => index = 0))
    /\ [][(compares' # compares) =>
             /\ index' - 1 \in 0 .. (Len(items) - 1)
             /\ index' \in 0 .. (Len(items) - 1)
             /\ Len(items) - 1 >= 0]_vars

C18_Witness ==
    /\ Len(items) = MaxLen
    /\ index = Len(items) - 1
    /\ did_swap
    /\ compares > Len(items)
    /\ ret = "Some"

\* C19: every swap lowers the number of inversions of the sequence by
\* exactly one, so the number of swaps from construction to exhaustion is
\* the number of inversions of the input.
C19_SwapsAreInversions ==
    /\ [](/\ swaps + Inversions(items) = Inversions(input)
          /\ ((done \/ ret = "None") => swaps = Inversions(input)))
    /\ [][/\ (swaps' # swaps =>
                 swaps' = swaps + 1 /\ Inversions(items') = Inversions(items) - 1)
          /\ (swaps' = swaps => Inversions(items') = Inversions(items))]_vars

C19_Witness ==
    /\ ret = "None"
    /\ Len(input) = MaxLen
    /\ Inversions(input) = 2
    /\ swaps = 2
    /\ \E k \in 1 .. (Len(input) - 1) : input[k].idx = input[k + 1].idx

\* C20: once k passes have completed (k <= n), the last k positions hold the
\* k largest items in non-decreasing key order, and no later step changes
\* those positions.
C20_SettledSuffix ==
    /\ [](/\ PassesCompleted <= Len(items)
          /\ \A j \in SettledPositions :
                \A m \in 1 .. (j - 1) : items[m].idx <= items[j].idx)
    /\ [][\A j \in SettledPositions : items'[j] = items[j]]_vars

C20_Witness ==
    /\ Len(items) = MaxLen
    /\ PassesCompleted = 1
    /\ index = Len(items) - 1
    /\ did_swap
    /\ ~IsSorted(items)
    /\ items[Len(items)] # input[Len(items)]
    /\ \E m \in 1 .. (Len(items) - 1) : items[m].idx = items[Len(items)].idx

\* C21: whatever the shuffle of model() draws, the idx values are a
\* permutation of 0..N-1 and each pixel has the gradient colour of its idx;
\* update() eventually sets finished; and whenever finished is set,
\* items[i].idx = i for every i, with the N items view() reads.
C21_SketchSortsGradient ==
    /\ [](/\ Len(input) = NumPixels
          /\ {input[k].idx : k \in 1 .. Len(input)} = 0 .. (NumPixels - 1)
          /\ \A k \in 1 .. Len(input) : input[k].color = Gradient(input[k].idx)
          /\ Len(items) = NumPixels
          /\ \A k \in 1 .. Len(items) : items[k].color = Gradient(items[k].idx)
          /\ (finished =>
                 \A i \in 0 .. (NumPixels - 1) :
                     At(items, i).idx = i /\ At(items, i).color = Gradient(i)))
    /\ <>finished

C21_Witness ==
    /\ finished
    /\ idle > 0
    /\ swaps >= 3
    /\ At(input, 0).idx = NumPixels - 1
    /\ At(items, 0).idx = 0
    /\ Len(items) = NumPixels

\* C22: the state starts at MovingCoords and changes only along
\* MovingCoords -> DrawingEdges -> ViewingSolution -> MovingCoords;
\* edge_animation_progress is 0 on entering DrawingEdges and NUM_COORDS
\* throughout ViewingSolution, every coordinate progress is 0 on re-entering
\* MovingCoords, and the solver has assigned current_tour before any state
\* in which view() indexes it.
C22_TourCycle ==
    /\ state = "MovingCoords"
    /\ [](/\ state \in {"MovingCoords", "DrawingEdges", "ViewingSolution"}
          /\ (state = "ViewingSolution" =>
                 edge_animation_progress = NUM_COORDS * 100)
          /\ (view_indexes_tour => current_tour \in Tours))
    /\ [][/\ (state' # state =>
                 <<state, state'>> \in {<<"MovingCoords", "DrawingEdges">>,
                                        <<"DrawingEdges", "ViewingSolution">>,
                                        <<"ViewingSolution", "MovingCoords">>})
          /\ ((state # "DrawingEdges" /\ state' = "DrawingEdges") =>
                 edge_animation_progress' = 0)
          /\ ((state # "MovingCoords" /\ state' = "MovingCoords") =>
                 \A i \in 1 .. NUM_COORDS : coord_animation_progress'[i] = 0)]_vars

C22_Witness ==
    /\ state = "MovingCoords"
    /\ current_tour \in Tours
    /\ solution_view_progress >= SOLUTION_VIEW_TIME
    /\ \A i \in 1 .. NUM_COORDS : coord_animation_progress[i] = 0
    /\ edge_animation_progress = 0

\* C23: after the t-th update the square at (row, col) has phase
\* ((t + 15*(row+col)) div 30) mod 4; every phase is in 0..3, squares with
\* equal row+col share a phase, and from one update to the next a phase
\* stays or advances by 1 modulo 4, changing once every 30 updates.
C23_DiagonalWave ==
    /\ [](/\ Len(squares) = GridSide * GridSide
          /\ \A k \in 1 .. Len(squares) :
                LET row == (k - 1) \div GridSide
                    col == (k - 1) % GridSide
                IN  /\ squares[k] \in 0 .. 3
                    /\ (time >= 1 =>
                           squares[k] = ((time + 15 * (row + col)) \div 30) % 4)
          /\ \A k \in 1 .. Len(squares) : \A m \in 1 .. Len(squares) :
                (((k - 1) \div GridSide) + ((k - 1) % GridSide)
                     = ((m - 1) \div GridSide) + ((m - 1) % GridSide))
                    => squares[k] = squares[m])
    /\ [][/\ time' = time + 1
          /\ (time >= 1 =>
                 \A k \in 1 .. Len(squares) :
                     LET row == (k - 1) \div GridSide
                         col == (k - 1) % GridSide
                     IN  /\ squares'[k] \in {squares[k], (squares[k] + 1) % 4}
                         /\ (squares'[k] # squares[k] <=>
                                (time' + 15 * (row + col)) % 30 = 0))]_vars

C23_Witness ==
    /\ time = 120
    /\ squares[1] = 0
    /\ squares[2] = 0
    /\ squares[3] = 1
    /\ squares[GridSide + 1] = 0
    /\ squares[GridSide * GridSide] = 0

\* C24: randomization_step grows by exactly 1 per update until finished; the
\* n-th update makes no swap for n <= 3 and exactly STEPS_PER_RANDOMIZATION
\* swaps for 4 <= n <= NUM_RANDOMIZATIONS+1; finished becomes true at the end
\* of update NUM_RANDOMIZATIONS+1, and every later update changes no field.
C24_RandomizationSchedule ==
    /\ [](/\ (updates <= NUM_RANDOMIZATIONS + 1 => randomization_step = updates)
          /\ (updates > NUM_RANDOMIZATIONS + 1 =>
                 randomization_step = NUM_RANDOMIZATIONS + 1)
          /\ (randomization_finished <=> updates >= NUM_RANDOMIZATIONS + 1)
          /\ swaps_in_update <= STEPS_PER_RANDOMIZATION)
    /\ [][/\ (updates' # updates => updates' = updates + 1)
          /\ ((updates' # updates /\ updates' <= 3) =>
                 last_swaps' = 0 /\ swaps_in_update = 0)
          /\ ((updates' # updates /\ updates' >= 4
                  /\ updates' <= NUM_RANDOMIZATIONS + 1) =>
                 last_swaps' = STEPS_PER_RANDOMIZATION)
          /\ (randomization_finished =>
                 UNCHANGED <<target, current, indices, randomization_step,
                             randomization_finished>>)
          /\ ((swaps_in_update' # swaps_in_update /\ swaps_in_update' # 0) =>
                 /\ swaps_in_update' = swaps_in_update + 1
                 /\ updates >= 3)]_vars

C24_Witness ==
    /\ randomization_finished
    /\ updates = NUM_RANDOMIZATIONS + 1 + MaxNones
    /\ randomization_step = NUM_RANDOMIZATIONS + 1
    /\ indices # [k \in 1 .. NumPixels |-> k - 1]

\* C25: indices is a permutation of 0..N-1 in every reachable state (a swap
\* with i = j included), target never changes, and after every update
\* current[k] = target[indices[k]] for all k, so current is always a
\* rearrangement of the target gradient.
C25_IndicesPermutation ==
    /\ [](/\ Len(indices) = NumPixels
          /\ \A v \in 0 .. (NumPixels - 1) : Occurrences(indices, v) = 1
          /\ target = [k \in 1 .. NumPixels |-> Gradient(k - 1)]
          /\ IsPermutationOf(current, target)
          /\ ((updates >= 1 /\ swaps_in_update = 0) =>
                 \A k \in 1 .. NumPixels :
                     current[k] = target[indices[k] + 1]))
    /\ [][target' = target]_vars

C25_Witness ==
    /\ updates >= 4
    /\ swaps_in_update = 0
    /\ last_swaps = STEPS_PER_RANDOMIZATION
    /\ indices # [k \in 1 .. NumPixels |-> k - 1]
    /\ current # target
    /\ \A k \in 1 .. NumPixels : current[k] = target[indices[k] + 1]

====
